---- MODULE Spec2Model ----
(***************************************************************************)
(* Conversation lifecycle of the Multi-LLM platform (src/app.py).          *)
(*                                                                         *)
(* The store is the SQLite file multi_llm.db.  Every handler opens its own *)
(* connection; Python's sqlite3 module opens a transaction implicitly at   *)
(* the first INSERT of a connection, which takes the database write lock,  *)
(* and the transaction ends at conn.commit() or, rolled back, at           *)
(* conn.close().  The tables visible to other connections are the          *)
(* committed ones.  FOREIGN KEY clauses are declared by init_db but no     *)
(* connection ever issues PRAGMA foreign_keys, so they are not enforced.   *)
(***************************************************************************)
EXTENDS Integers, Sequences, FiniteSets, TLC

(* ------------------------------ bounds --------------------------------- *)

\* At most MaxTurns turns are committed to the store.
MaxTurns == 2
\* CURRENT_TIMESTAMP takes the values 0..MaxClock (one unit is one second).
MaxClock == 1

\* The logged-in users (session['user_id']).
Users == {1, 2}
\* The request workers that may be inside api_chat at the same time.
Workers == {1, 2}
\* The conversation ids a client may send; 0 stands for none.  The store
\* holds at most MaxTurns conversations, so the largest names none when sent.
Refs == 0..MaxTurns

(* ------------------------------ text ----------------------------------- *)

\* The slice bound of the title derivation, user_message[:50].
TitleLen == 50

Alphabet == <<"a", "b", "c", "d", "e", "f", "g">>

\* A text of n characters whose i-th character depends on i.
Text(n) == [i \in 1..n |-> Alphabet[(i % Len(Alphabet)) + 1]]

\* The utterances a client sends: an empty one and one beyond the slice bound.
Utterances == {Text(n) : n \in {0, TitleLen + 1}}

\* The utterances of the title runs: around the slice bound.
TitleUtterances ==
    {Text(n) : n \in {0, 1, TitleLen - 1, TitleLen, TitleLen + 1, TitleLen + 3}}

\* What the inference backend answers when it answers.
Replies == {<<"o", "k">>}

Models == {"Jayasimma/codemium_ai"}
Domains == {"coding"}

Ellipsis == <<".", ".", ".">>

\* Title with the comparison off by one: len(user_message) >= 50.
TitleOffByOne(user_message) ==
    IF Len(user_message) >= TitleLen
    THEN SubSeq(user_message, 1, TitleLen) \o Ellipsis
    ELSE user_message

\* title = user_message[:50] + '...' if len(user_message) > 50 else user_message
Title(user_message) ==
    IF Len(user_message) > TitleLen
    THEN SubSeq(user_message, 1, TitleLen) \o Ellipsis
    ELSE user_message

(* ------------------------------ state ---------------------------------- *)

VARIABLES
    conversations,    \* committed rows of table conversations, in id order
    messages,         \* committed rows of table messages, in id order
    txConversations,  \* conversations rows of the open write transaction
    txMessages,       \* messages rows of the open write transaction
    lockHolder,       \* the worker holding the database write lock, or 0
    req,              \* per worker: where it is in api_chat, and its locals
    response,         \* the response most recently sent by api_chat
    now,              \* the wall clock, in seconds
    uploaded_files,   \* committed rows of table uploaded_files, in id order
    blobs,            \* the files of the uploads folder: path -> content
    upload,           \* the request upload_file handled last, and its reply
    contact_submissions  \* committed rows of table contact_submissions

vars == <<conversations, messages, txConversations, txMessages,
          lockHolder, req, response, now,
          uploaded_files, blobs, upload, contact_submissions>>

\* What api_chat never touches.
otherVars == <<uploaded_files, blobs, upload, contact_submissions>>

NoData == [model |-> "", message |-> <<>>, conversation_id |-> 0, domain |-> ""]

\* waited: the request's first INSERT found the write lock held and waited.
Idle == [pc |-> "idle", user_id |-> 0, data |-> NoData, conversation_id |-> 0,
         waited |-> FALSE]

NoUpload == [user_id |-> 0, filename |-> <<>>, status |-> 0, success |-> FALSE,
             filepath |-> <<>>, error |-> ""]

NoResponse == [status |-> 0, success |-> FALSE,
               conversation_id |-> 0, error |-> ""]

\* INTEGER PRIMARY KEY AUTOINCREMENT: one more than the largest id so far; the
\* sequence counter is rolled back with the transaction that advanced it.
NextConversationId == Len(conversations) + Len(txConversations) + 1
NextMessageId == Len(messages) + Len(txMessages) + 1

ConversationRow(id, user_id, model_name, domain, title) ==
    [id |-> id, user_id |-> user_id, model_name |-> model_name,
     domain |-> domain, title |-> title, created_at |-> now]

MessageRow(id, conversation_id, user_id, role, content) ==
    [id |-> id, conversation_id |-> conversation_id, user_id |-> user_id,
     role |-> role, content |-> content, input_type |-> "text",
     created_at |-> now]

Init ==
    /\ conversations = <<>>
    /\ messages = <<>>
    /\ txConversations = <<>>
    /\ txMessages = <<>>
    /\ lockHolder = 0
    /\ req = [w \in Workers |-> Idle]
    /\ response = NoResponse
    /\ now = 0
    /\ uploaded_files = <<>>
    /\ blobs = <<>>
    /\ upload = NoUpload
    /\ contact_submissions = <<>>

(* ------------------------------ api_chat ------------------------------- *)

\* The test dropped: every request inserts a conversation.
AlwaysNewConversation(conversation_id) == TRUE

\* if not conversation_id:
NeedsNewConversation(conversation_id) == conversation_id = 0

\* The conversation insert (when no id was sent) and the user message insert.
\* The first INSERT opens the transaction and takes the write lock.
WriteRows(w, user_id, data) ==
    /\ lockHolder = 0
    /\ Len(messages) < 2 * MaxTurns
    /\ LET create == NeedsNewConversation(data.conversation_id)
           conversation_id == IF create THEN NextConversationId
                              ELSE data.conversation_id
       IN /\ txConversations' =
                 IF create
                 THEN <<ConversationRow(NextConversationId, user_id, data.model,
                                        data.domain, Title(data.message))>>
                 ELSE <<>>
          /\ txMessages' = <<MessageRow(NextMessageId, conversation_id, user_id,
                                        "user", data.message)>>
          /\ req' = [req EXCEPT ![w] = [pc |-> "inference", user_id |-> user_id,
                                        data |-> data,
                                        conversation_id |-> conversation_id,
                                        waited |-> req[w].waited]]
    /\ lockHolder' = w
    /\ UNCHANGED <<conversations, messages, response, now>>
    /\ UNCHANGED otherVars

\* A request reaches api_chat and runs up to the inference call.
InsertRows(w, user_id, data) ==
    /\ req[w].pc = "idle"
    /\ WriteRows(w, user_id, data)

\* A request reaches api_chat and its first INSERT finds the write lock held
\* by another connection for longer than the busy timeout:
\* sqlite3.OperationalError leaves api_chat outside its try block, the request
\* ends 500 and nothing of it was written.
InsertLocked(w) ==
    /\ req[w].pc = "idle"
    /\ lockHolder # 0
    /\ response' = [status |-> 500, success |-> FALSE,
                    conversation_id |-> 0, error |-> "database is locked"]
    /\ UNCHANGED <<conversations, messages, txConversations, txMessages,
                   lockHolder, req, now>>
    /\ UNCHANGED otherVars

\* ollama.chat returned: the assistant message is inserted, the transaction is
\* committed, the reply carries the conversation id, the connection is closed.
InferenceOk(w, ai_response) ==
    /\ req[w].pc = "inference"
    /\ LET assistant == MessageRow(NextMessageId, req[w].conversation_id,
                                   req[w].user_id, "assistant", ai_response)
       IN /\ conversations' = conversations \o txConversations
          /\ messages' = messages \o txMessages \o <<assistant>>
    /\ txConversations' = <<>>
    /\ txMessages' = <<>>
    /\ lockHolder' = 0
    /\ response' = [status |-> 200, success |-> TRUE,
                    conversation_id |-> req[w].conversation_id, error |-> ""]
    /\ req' = [req EXCEPT ![w] = Idle]
    /\ UNCHANGED now
    /\ UNCHANGED otherVars

\* The except branch saving the error text as the assistant's message and
\* committing.
InferenceFailSaved(w) ==
    /\ req[w].pc = "inference"
    /\ conversations' = conversations \o txConversations
    /\ messages' = messages \o txMessages
                     \o <<MessageRow(NextMessageId, req[w].conversation_id,
                                     req[w].user_id, "assistant", <<"e">>)>>
    /\ txConversations' = <<>>
    /\ txMessages' = <<>>
    /\ lockHolder' = 0
    /\ response' = [status |-> 500, success |-> FALSE,
                    conversation_id |-> 0, error |-> "inference failed"]
    /\ req' = [req EXCEPT ![w] = Idle]
    /\ UNCHANGED now
    /\ UNCHANGED otherVars

\* conn.commit() moved into the finally block: the failed turn's rows are
\* committed without an assistant message.
InferenceFailCommitted(w) ==
    /\ req[w].pc = "inference"
    /\ conversations' = conversations \o txConversations
    /\ messages' = messages \o txMessages
    /\ txConversations' = <<>>
    /\ txMessages' = <<>>
    /\ lockHolder' = 0
    /\ response' = [status |-> 500, success |-> FALSE,
                    conversation_id |-> 0, error |-> "inference failed"]
    /\ req' = [req EXCEPT ![w] = Idle]
    /\ UNCHANGED now
    /\ UNCHANGED otherVars

\* ollama.chat raised: the reply is {'success': False, 'error': str(e)} with
\* status 500, and conn.close() in the finally block ends the transaction
\* without a commit, which rolls it back.
InferenceFail(w) ==
    /\ req[w].pc = "inference"
    /\ UNCHANGED <<conversations, messages>>
    /\ txConversations' = <<>>
    /\ txMessages' = <<>>
    /\ lockHolder' = 0
    /\ response' = [status |-> 500, success |-> FALSE,
                    conversation_id |-> 0, error |-> "inference failed"]
    /\ req' = [req EXCEPT ![w] = Idle]
    /\ UNCHANGED now
    /\ UNCHANGED otherVars

\* A second of wall-clock time passes.
Tick ==
    /\ now < MaxClock
    /\ now' = now + 1
    /\ UNCHANGED <<conversations, messages, txConversations, txMessages,
                   lockHolder, req, response>>
    /\ UNCHANGED otherVars

ChatRequests ==
    [model : Models, message : Utterances, conversation_id : Refs,
     domain : Domains]

\* Requests that start a conversation, with utterances around the slice bound.
TitleRequests ==
    [model : Models, message : TitleUtterances, conversation_id : {0},
     domain : Domains]

Next ==
    \/ \E w \in Workers, u \in Users, d \in ChatRequests : InsertRows(w, u, d)
    \/ \E w \in Workers : InsertLocked(w)
    \/ \E w \in Workers, r \in Replies : InferenceOk(w, r)
    \/ \E w \in Workers : InferenceFail(w)
    \/ Tick

Spec == Init /\ [][Next]_vars

NextTitle ==
    \/ \E w \in Workers, u \in Users, d \in TitleRequests : InsertRows(w, u, d)
    \/ \E w \in Workers : InsertLocked(w)
    \/ \E w \in Workers, r \in Replies : InferenceOk(w, r)
    \/ \E w \in Workers : InferenceFail(w)
    \/ Tick

SpecTitle == Init /\ [][NextTitle]_vars

(* ------------------------------ upload_file ---------------------------- *)

\* At most MaxUploads rows are committed to uploaded_files.
MaxUploads == 2

\* app.config['ALLOWED_EXTENSIONS']
ALLOWED_EXTENSIONS ==
    {<<"t", "x", "t">>, <<"p", "d", "f">>, <<"p", "n", "g">>,
     <<"j", "p", "g">>, <<"j", "p", "e", "g">>, <<"g", "i", "f">>,
     <<"c", "s", "v">>, <<"p", "y">>, <<"j", "s">>,
     <<"h", "t", "m", "l">>, <<"c", "s", "s">>, <<"d", "o", "c">>,
     <<"d", "o", "c", "x">>}

\* The file names clients upload under.
FileNames ==
    {<<"r", ".", "p", "d", "f">>,
     <<"/", "r", ".", "p", "d", "f">>,
     <<"r", ".", "P", "D", "F">>,
     <<"r", ".", "e", "x", "e">>,
     <<"r", ".", "p", "d", "f", ".", "e", "x", "e">>,
     <<"r", "p", "d", "f">>,
     <<>>}

Contents == {"x", "y"}

\* request.files without a 'file' part.
NoFile == [filename |-> <<"?">>, content |-> "", present |-> FALSE]

Files ==
    {NoFile} \cup [filename : FileNames, content : Contents, present : {TRUE}]

\* str.lower() on the characters file names are made of here.
Lower(c) ==
    CASE c = "P" -> "p"
      [] c = "D" -> "d"
      [] c = "F" -> "f"
      [] OTHER -> c

LowerText(text) == [i \in DOMAIN text |-> Lower(text[i])]

\* The index of the last "." of a name, 0 when it has none.
LastDot(filename) ==
    LET dots == {i \in DOMAIN filename : filename[i] = "."}
    IN IF dots = {} THEN 0 ELSE CHOOSE i \in dots : \A j \in dots : j <= i

\* filename.rsplit('.', 1)[1].lower()
FileType(filename) ==
    LowerText(SubSeq(filename, LastDot(filename) + 1, Len(filename)))

\* Only the dot is looked for: any extension passes.
AllowedFileAnyExtension(filename) == LastDot(filename) # 0

\* allowed_file: '.' in filename and the lowercased text after the last '.'
\* is in the allow-list.
AllowedFile(filename) ==
    /\ LastDot(filename) # 0
    /\ FileType(filename) \in ALLOWED_EXTENSIONS

\* The characters werkzeug's secure_filename keeps: [A-Za-z0-9_.-].
SafeChars ==
    {"a", "b", "c", "d", "e", "f", "g", "h", "i", "j", "k", "l", "m", "n", "o",
     "p", "q", "r", "s", "t", "u", "v", "w", "x", "y", "z", "D", "F", "P",
     "0", "1", "2", "3", "4", "5", "6", "7", "8", "9", "_", ".", "-"}

\* text.strip("._")
StripDotsAndUnderscores(text) ==
    LET keep == {i \in DOMAIN text : text[i] \notin {".", "_"}}
    IN IF keep = {} THEN <<>>
       ELSE SubSeq(text,
                   CHOOSE i \in keep : \A j \in keep : i <= j,
                   CHOOSE i \in keep : \A j \in keep : j <= i)

\* werkzeug.utils.secure_filename: path separators become spaces, the words
\* are joined with "_", characters outside [A-Za-z0-9_.-] are dropped and
\* leading and trailing dots and underscores are stripped.
SecureFilename(filename) ==
    LET spaced == [i \in DOMAIN filename |->
                      IF filename[i] = "/" THEN " " ELSE filename[i]]
        joined == [i \in DOMAIN spaced |->
                      IF spaced[i] # " " THEN spaced[i]
                      ELSE IF /\ i > 1
                              /\ spaced[i - 1] # " "
                              /\ \E j \in (i + 1)..Len(spaced) : spaced[j] # " "
                           THEN "_" ELSE ""]
    IN StripDotsAndUnderscores(SelectSeq(joined, LAMBDA c : c \in SafeChars))

Digit == <<"0", "1", "2", "3", "4", "5", "6", "7", "8", "9">>

\* str(n) of a natural number.
RECURSIVE Digits(_)
Digits(n) ==
    IF n < 10 THEN <<Digit[n + 1]>>
    ELSE Digits(n \div 10) \o <<Digit[(n % 10) + 1]>>

\* datetime.now().strftime('%Y%m%d_%H%M%S') at second t of the minute the
\* runs happen in: fixed width, the seconds zero-padded.
Stamp(t) ==
    <<"2", "0", "2", "6", "1", "1", "0", "1", "_", "2", "1", "0", "0">>
        \o <<Digit[((t \div 10) % 6) + 1], Digit[(t % 10) + 1]>>

\* The stored name without the user's id.
StoredNameNoUser(user_id, t, name) == Stamp(t) \o <<"_">> \o name

\* f"{session['user_id']}_{timestamp}_{filename}"
StoredName(user_id, t, name) ==
    Digits(user_id) \o <<"_">> \o Stamp(t) \o <<"_">> \o name

\* os.path.join(app.config['UPLOAD_FOLDER'], filename)
FilePath(filename) == <<"u", "p", "l", "o", "a", "d", "s", "/">> \o filename

\* file.save(filepath): the file at that path is created or replaced.
Save(filepath, content) ==
    [p \in DOMAIN blobs \cup {filepath} |->
        IF p = filepath THEN content ELSE blobs[p]]

UploadedFileRow(user_id, conversation_id, filename, filepath) ==
    [id |-> Len(uploaded_files) + 1, user_id |-> user_id,
     conversation_id |-> conversation_id, filename |-> filename,
     file_path |-> filepath, file_type |-> FileType(filename),
     uploaded_at |-> now]

UploadReply(user_id, file, status, filepath, error) ==
    [user_id |-> user_id,
     filename |-> IF file.present THEN file.filename ELSE <<>>,
     status |-> status, success |-> status = 200,
     filepath |-> filepath, error |-> error]

\* upload_file; the INSERT of an allowed file goes through while no other
\* connection holds the write lock.
UploadFile(user_id, file, conversation_id) ==
    /\ IF ~file.present
       THEN /\ upload' = UploadReply(user_id, file, 400, <<>>, "No file provided")
            /\ UNCHANGED <<uploaded_files, blobs>>
       ELSE IF file.filename = <<>>
       THEN /\ upload' = UploadReply(user_id, file, 400, <<>>, "No file selected")
            /\ UNCHANGED <<uploaded_files, blobs>>
       ELSE IF AllowedFile(file.filename)
       THEN LET filename == StoredName(user_id, now,
                                       SecureFilename(file.filename))
                filepath == FilePath(filename)
            IN /\ lockHolder = 0
               /\ Len(uploaded_files) < MaxUploads
               /\ blobs' = Save(filepath, file.content)
               /\ uploaded_files' =
                      Append(uploaded_files,
                             UploadedFileRow(user_id, conversation_id,
                                             file.filename, filepath))
               /\ upload' = UploadReply(user_id, file, 200, filepath, "")
       ELSE /\ upload' = UploadReply(user_id, file, 400, <<>>, "Invalid file type")
            /\ UNCHANGED <<uploaded_files, blobs>>
    /\ UNCHANGED <<conversations, messages, txConversations, txMessages,
                   lockHolder, req, response, now, contact_submissions>>

\* upload_file of an allowed file while a turn holds the write lock for longer
\* than the busy timeout: the file is saved, then the INSERT raises
\* sqlite3.OperationalError and the request ends 500 with no row written.
UploadFileLocked(user_id, file, conversation_id) ==
    /\ lockHolder # 0
    /\ file.present
    /\ AllowedFile(file.filename)
    /\ Len(uploaded_files) < MaxUploads
    /\ LET filepath == FilePath(StoredName(user_id, now,
                                          SecureFilename(file.filename)))
       IN /\ blobs' = Save(filepath, file.content)
          /\ upload' = UploadReply(user_id, file, 500, <<>>,
                                   "database is locked")
    /\ UNCHANGED <<conversations, messages, txConversations, txMessages,
                   lockHolder, req, response, now, uploaded_files,
                   contact_submissions>>

\* Uploads that name no conversation (conversation_id 0), and the clock.
NextUpload ==
    \/ \E u \in Users, f \in Files : UploadFile(u, f, 0)
    \/ Tick

SpecUpload == Init /\ [][NextUpload]_vars

(* ------------------------ waiting for the write lock ------------------- *)

\* Requests that start a conversation with a non-empty utterance.
WaitRequests ==
    {d \in ChatRequests : d.conversation_id = 0 /\ d.message # <<>>}

\* The first INSERT of api_chat finds the write lock held by another
\* connection and waits for it (sqlite3.connect's busy timeout).
InsertWait(w, user_id, data) ==
    /\ req[w].pc = "idle"
    /\ lockHolder # 0
    /\ req' = [req EXCEPT ![w] = [pc |-> "waiting", user_id |-> user_id,
                                  data |-> data, conversation_id |-> 0,
                                  waited |-> TRUE]]
    /\ UNCHANGED <<conversations, messages, txConversations, txMessages,
                   lockHolder, response, now>>
    /\ UNCHANGED otherVars

\* After the wait the request writes into the same user's newest conversation
\* instead of creating one.
InsertAfterWaitContinue(w) ==
    /\ req[w].pc = "waiting"
    /\ lockHolder = 0
    /\ Len(messages) < 2 * MaxTurns
    /\ LET own == {j \in DOMAIN conversations :
                      conversations[j].user_id = req[w].user_id}
           create == own = {}
           conversation_id ==
               IF create THEN NextConversationId
               ELSE conversations[CHOOSE j \in own : \A k \in own : k <= j].id
       IN /\ txConversations' =
                 IF create
                 THEN <<ConversationRow(NextConversationId, req[w].user_id,
                                        req[w].data.model, req[w].data.domain,
                                        Title(req[w].data.message))>>
                 ELSE <<>>
          /\ txMessages' = <<MessageRow(NextMessageId, conversation_id,
                                        req[w].user_id, "user",
                                        req[w].data.message)>>
          /\ req' = [req EXCEPT ![w].pc = "inference",
                                ![w].conversation_id = conversation_id]
    /\ lockHolder' = w
    /\ UNCHANGED <<conversations, messages, response, now>>
    /\ UNCHANGED otherVars

\* The lock was released within the busy timeout: the waiting request goes on
\* with its inserts, against the store as it is now.
InsertAfterWait(w) ==
    /\ req[w].pc = "waiting"
    /\ WriteRows(w, req[w].user_id, req[w].data)

\* The lock was not released within the busy timeout: the INSERT raises
\* sqlite3.OperationalError, answered by the except branch.
InsertTimeout(w) ==
    /\ req[w].pc = "waiting"
    /\ lockHolder # 0
    /\ response' = [status |-> 500, success |-> FALSE,
                    conversation_id |-> 0, error |-> "database is locked"]
    /\ req' = [req EXCEPT ![w] = Idle]
    /\ UNCHANGED <<conversations, messages, txConversations, txMessages,
                   lockHolder, now>>
    /\ UNCHANGED otherVars

NextWait ==
    \/ \E w \in Workers, u \in Users, d \in WaitRequests : InsertRows(w, u, d)
    \/ \E w \in Workers, u \in Users, d \in WaitRequests : InsertWait(w, u, d)
    \/ \E w \in Workers : InsertAfterWait(w)
    \/ \E w \in Workers : InsertTimeout(w)
    \/ \E w \in Workers, r \in Replies : InferenceOk(w, r)
    \/ \E w \in Workers : InferenceFail(w)
    \/ Tick

SpecWait == Init /\ [][NextWait]_vars

(* -------------------------------- contact ------------------------------ *)

\* At most MaxContacts rows are committed to contact_submissions.
MaxContacts == 1

ContactForms ==
    [name : {"n"}, email : {"n@example.org"}, subject : {"s"}, message : {"m"}]

\* contact, POST: the form is inserted and committed.  The INSERT needs the
\* write lock, so it goes through while no other connection holds it.
Contact(form) ==
    /\ lockHolder = 0
    /\ Len(contact_submissions) < MaxContacts
    /\ contact_submissions' =
           Append(contact_submissions,
                  [id |-> Len(contact_submissions) + 1, name |-> form.name,
                   email |-> form.email, subject |-> form.subject,
                   message |-> form.message, submitted_at |-> now])
    /\ UNCHANGED <<conversations, messages, txConversations, txMessages,
                   lockHolder, req, response, now, uploaded_files, blobs,
                   upload>>

\* The files of the runs that mix uploads with turns.
StoreFiles ==
    {f \in Files : /\ f.present
                   /\ f.content = "x"
                   /\ f.filename = <<"r", ".", "p", "d", "f">>}

\* Turns, uploads and contact submissions against the one database file.
NextStore ==
    \/ \E w \in Workers, u \in Users, d \in WaitRequests : InsertRows(w, u, d)
    \/ \E w \in Workers, u \in Users, d \in WaitRequests : InsertWait(w, u, d)
    \/ \E w \in Workers : InsertAfterWait(w)
    \/ \E w \in Workers : InsertTimeout(w)
    \/ \E w \in Workers, r \in Replies : InferenceOk(w, r)
    \/ \E w \in Workers : InferenceFail(w)
    \/ \E u \in Users, f \in StoreFiles : UploadFile(u, f, 0)
    \/ \E u \in Users, f \in StoreFiles : UploadFileLocked(u, f, 0)
    \/ \E form \in ContactForms : Contact(form)
    \/ Tick

SpecStore == Init /\ [][NextStore]_vars

(* --------------------------- view_conversation ------------------------- *)

\* ORDER BY created_at DESC.
InsertByCreatedAtDesc(sorted, row) ==
    LET k == Cardinality({i \in DOMAIN sorted :
                             sorted[i].created_at >= row.created_at})
    IN SubSeq(sorted, 1, k) \o <<row>> \o SubSeq(sorted, k + 1, Len(sorted))

\* ORDER BY created_at ASC over a scan of the table in id order: a row goes
\* after every row whose created_at is not later than its own.
InsertByCreatedAt(sorted, row) ==
    LET k == Cardinality({i \in DOMAIN sorted :
                             sorted[i].created_at <= row.created_at})
    IN SubSeq(sorted, 1, k) \o <<row>> \o SubSeq(sorted, k + 1, Len(sorted))

RECURSIVE OrderByCreatedAt(_)
OrderByCreatedAt(rows) ==
    IF rows = <<>> THEN <<>>
    ELSE InsertByCreatedAt(OrderByCreatedAt(SubSeq(rows, 1, Len(rows) - 1)),
                           rows[Len(rows)])

\* SELECT role, content, created_at FROM messages
\*   WHERE conversation_id = ? ORDER BY created_at ASC
SelectMessages(conversation_id) ==
    LET rows == OrderByCreatedAt(
                    SelectSeq(messages,
                              LAMBDA m : m.conversation_id = conversation_id))
    IN [i \in DOMAIN rows |->
           [role |-> rows[i].role, content |-> rows[i].content,
            created_at |-> rows[i].created_at]]

\* SELECT * FROM conversations WHERE id = ?
SelectConversationById(conversation_id, user_id) ==
    SelectSeq(conversations, LAMBDA c : c.id = conversation_id)

\* SELECT * FROM conversations WHERE id = ? AND user_id = ?
SelectConversation(conversation_id, user_id) ==
    SelectSeq(conversations,
              LAMBDA c : c.id = conversation_id /\ c.user_id = user_id)

\* What view_conversation answers to user_id asking for conversation_id: the
\* flash and the redirect to the history page, or the rendered conversation.
ViewConversation(user_id, conversation_id) ==
    LET conversation == SelectConversation(conversation_id, user_id)
    IN IF conversation = <<>>
       THEN [status |-> 302, flash |-> "Conversation not found.",
             conversation |-> <<>>, messages |-> <<>>]
       ELSE [status |-> 200, flash |-> "",
             conversation |-> <<conversation[1]>>,
             messages |-> SelectMessages(conversation_id)]

(* ------------------------------ properties ----------------------------- *)

\* Worker w's request, which had reached the inference call, ends in this step.
Finishes(w) == req[w].pc = "inference" /\ req'[w].pc = "idle"

\* The owner of the committed conversation with this id is another user.
OwnedByOther(conversation_id, user_id) ==
    \E i \in DOMAIN conversations :
        /\ conversations[i].id = conversation_id
        /\ conversations[i].user_id # user_id

\* A committed conversation has this id.
Exists(conversation_id) ==
    \E i \in DOMAIN conversations : conversations[i].id = conversation_id

\* The committed messages of a conversation, in id order.
MessagesOf(conversation_id) ==
    SelectSeq(messages, LAMBDA m : m.conversation_id = conversation_id)

\* C1: a turn (of a non-empty utterance) submitted by a user with the id of a conversation another user
\* owns ends in a failure reply and adds no message to the store.
C1_NoCrossUserContinue ==
    [][\A w \in Workers :
          (/\ Finishes(w)
           /\ req[w].data.message # <<>>
           /\ OwnedByOther(req[w].data.conversation_id, req[w].user_id))
              => (~response'.success /\ messages' = messages)]_vars

\* C2: when a turn (of a non-empty utterance) reached the inference call and the call failed, the user
\* message with the raw utterance is in the committed store once the request
\* has ended.
C2_UserMessageDurable ==
    [][\A w \in Workers :
          (Finishes(w) /\ ~response'.success /\ req[w].data.message # <<>>)
              => \E i \in DOMAIN messages' :
                     /\ messages'[i].role = "user"
                     /\ messages'[i].content = req[w].data.message
                     /\ messages'[i].user_id = req[w].user_id
                     /\ messages'[i].conversation_id = req[w].conversation_id]_vars

\* C3: when a turn (of a non-empty utterance) sent without a conversation id
\* fails at the inference call, the failure reply carries the id of the
\* conversation that was created and that conversation is in the committed
\* store.
C3_FailureCarriesConversationId ==
    [][\A w \in Workers :
          (/\ Finishes(w)
           /\ ~response'.success
           /\ req[w].data.message # <<>>
           /\ req[w].data.conversation_id = 0)
              => /\ response'.conversation_id = req[w].conversation_id
                 /\ \E i \in DOMAIN conversations' :
                        conversations'[i].id = req[w].conversation_id]_vars

\* C4: a successful turn sent without a conversation id adds exactly one
\* conversation row, a turn sent with a conversation id adds none, no other
\* step adds one, and no step changes a row (its title included) once written.
C4_CreateOnce ==
    [][/\ \A i \in DOMAIN conversations :
             i \in DOMAIN conversations' /\ conversations'[i] = conversations[i]
       /\ \A w \in Workers :
             Finishes(w)
                 => Len(conversations') = Len(conversations) +
                        (IF response'.success /\ req[w].data.conversation_id = 0
                         THEN 1 ELSE 0)
       /\ (\A w \in Workers : ~Finishes(w)) => conversations' = conversations
       /\ \A w \in Workers :
             req'[w].pc = "inference"
                 => Len(txConversations') =
                        (IF req'[w].data.conversation_id = 0 THEN 1 ELSE 0)]_vars

\* C4 witness: a conversation was created by one turn and continued by a second
\* turn that sent its id, and it is still the only conversation.
C4_Witness ==
    /\ Len(conversations) = 1
    /\ Len(messages) = 4
    /\ \A i \in DOMAIN messages : messages[i].conversation_id = 1
    /\ response.success /\ response.conversation_id = 1

NumAssistant(rows) ==
    Cardinality({i \in DOMAIN rows : rows[i].role = "assistant"})

\* C5: every message's role is user or assistant, written or committed, and
\* the number of committed assistant messages grows by exactly one in a step
\* that ends a turn with a successful inference call and in no other step;
\* an open transaction holds no assistant message.
C5_AssistantIffSuccess ==
    [][/\ \A i \in DOMAIN messages' : messages'[i].role \in {"user", "assistant"}
       /\ \A i \in DOMAIN txMessages' : txMessages'[i].role = "user"
       /\ NumAssistant(messages') = NumAssistant(messages) +
              (IF \E w \in Workers : Finishes(w) /\ response'.success
               THEN 1 ELSE 0)]_vars

\* C5 witness: one turn succeeded and a later one failed at the inference call;
\* the store holds the one assistant message.
C5_Witness ==
    /\ response.error = "inference failed"
    /\ Len(messages) = 2
    /\ messages[1].role = "user" /\ messages[2].role = "assistant"

\* C6: every committed message referencing a conversation carries that
\* conversation's user_id.
C6_MessageOwnerIsConversationOwner ==
    \A i \in DOMAIN messages, j \in DOMAIN conversations :
        messages[i].conversation_id = conversations[j].id
            => messages[i].user_id = conversations[j].user_id

\* The roles of the returned messages alternate, starting with user.
Alternates(rows) ==
    \A i \in DOMAIN rows :
        rows[i].role = (IF i % 2 = 1 THEN "user" ELSE "assistant")

\* What a user should be shown of a conversation: its messages in the order
\* they were inserted, in the three columns the page renders.
InInsertionOrder(conversation_id) ==
    LET rows == MessagesOf(conversation_id)
    IN [i \in DOMAIN rows |->
           [role |-> rows[i].role, content |-> rows[i].content,
            created_at |-> rows[i].created_at]]

\* Every conversation's transcript, as its owner is shown it, is in creation
\* time and insertion order and alternates user, assistant.
TranscriptsOrdered ==
    \A j \in DOMAIN conversations :
        LET view == ViewConversation(conversations[j].user_id,
                                     conversations[j].id)
            rows == view.messages
        IN /\ view.status = 200
           /\ \A a, b \in DOMAIN rows :
                  a < b => rows[a].created_at <= rows[b].created_at
           /\ rows = InInsertionOrder(conversations[j].id)
           /\ Alternates(rows)
           /\ Len(rows) % 2 = 0

C8_ViewScopedToOwner ==
    \A j \in DOMAIN conversations :
        LET c == conversations[j]
            mine == ViewConversation(c.user_id, c.id)
        IN /\ \A u \in Users \ {c.user_id} :
                  /\ ViewConversation(u, c.id) =
                         ViewConversation(u, Len(conversations) + 1)
                  /\ ViewConversation(u, c.id).status = 302
                  /\ ViewConversation(u, c.id).messages = <<>>
           /\ mine.status = 200
           /\ mine.conversation = <<c>>
           /\ Len(mine.messages) = Len(MessagesOf(c.id))
           /\ \A i \in DOMAIN messages :
                  messages[i].conversation_id = c.id
                      => \E k \in DOMAIN mine.messages :
                             /\ mine.messages[k].content = messages[i].content
                             /\ mine.messages[k].role = messages[i].role

\* C8 witness: two users each own a conversation that has messages.
C8_Witness ==
    \E j, k \in DOMAIN conversations :
        /\ conversations[j].user_id # conversations[k].user_id
        /\ ViewConversation(conversations[j].user_id,
                            conversations[j].id).messages # <<>>
        /\ ViewConversation(conversations[k].user_id,
                            conversations[k].id).messages # <<>>

\* C9: a turn sent with a conversation id that names no conversation ends in
\* a failure reply and writes nothing, and every committed message references
\* a conversation row that exists.
C9_NoOrphanedMessages ==
    [][/\ \A w \in Workers :
             (/\ Finishes(w)
              /\ req[w].data.conversation_id # 0
              /\ ~Exists(req[w].data.conversation_id))
                 => /\ ~response'.success
                    /\ messages' = messages
                    /\ conversations' = conversations
       /\ \A i \in DOMAIN messages' :
             \E j \in DOMAIN conversations' :
                 conversations'[j].id = messages'[i].conversation_id]_vars

\* The title the derivation is to give an utterance.
ExpectedTitle(utterance) ==
    IF Len(utterance) <= 50 THEN utterance
    ELSE [i \in 1..53 |-> IF i <= 50 THEN utterance[i] ELSE "."]

\* C10: the title written for a new conversation is the utterance when the
\* utterance has at most 50 characters, and otherwise its first 50 characters
\* followed by the marker "..."; this holds of the row a turn has written and
\* of every committed conversation, whose first turn's utterance is stored
\* as a user message.
C10_TitleDerivation ==
    /\ \A w \in Workers :
          (req[w].pc = "inference" /\ req[w].data.conversation_id = 0)
              => /\ Len(txConversations) = 1
                 /\ txConversations[1].title = ExpectedTitle(req[w].data.message)
    /\ \A j \in DOMAIN conversations :
          \E i \in DOMAIN messages :
              /\ messages[i].conversation_id = conversations[j].id
              /\ messages[i].role = "user"
              /\ conversations[j].title = ExpectedTitle(messages[i].content)

\* C10 witness: committed conversations whose utterances had 50 and 51
\* characters, titled with 50 and 53.
C10_Witness ==
    \E j, k \in DOMAIN conversations :
        /\ Len(conversations[j].title) = 50
        /\ Len(conversations[k].title) = 53
        /\ \E i \in DOMAIN messages :
               /\ messages[i].conversation_id = conversations[k].id
               /\ Len(messages[i].content) = 51

\* C12: an empty utterance is rejected before anything is written: no turn
\* with an empty utterance reaches the inference call, and no user message
\* with empty content is written or committed.
C12_EmptyUtteranceRejected ==
    /\ \A w \in Workers :
          req[w].pc = "inference" => req[w].data.message # <<>>
    /\ \A i \in DOMAIN txMessages : txMessages[i].content # <<>>
    /\ \A i \in DOMAIN messages :
          messages[i].role = "user" => messages[i].content # <<>>

\* Every conversation id that has committed messages has an even number of
\* them, and every committed conversation has at least one.
TurnsWhole ==
    /\ \A c \in Refs : Len(MessagesOf(c)) % 2 = 0
    /\ \A j \in DOMAIN conversations : Len(MessagesOf(conversations[j].id)) > 0

\* C16: the committed store changes only in the step that ends a request, and
\* then takes all of the request's writes (the conversation row if one was
\* inserted, the user message and the assistant message) or none of them; so
\* every committed conversation id holds an even number of messages and no
\* committed conversation is without messages.
C16_TurnAtomicity ==
    /\ []TurnsWhole
    /\ [][/\ (\A w \in Workers : ~Finishes(w))
              => (conversations' = conversations /\ messages' = messages)
           /\ \A w \in Workers :
                 Finishes(w)
                     => \/ /\ conversations' = conversations
                           /\ messages' = messages
                        \/ /\ conversations' = conversations \o txConversations
                           /\ Len(messages') = Len(messages) + 2
                           /\ messages'[Len(messages) + 1] = txMessages[1]
                           /\ messages'[Len(messages) + 2].role = "assistant"
                           /\ messages'[Len(messages) + 2].conversation_id =
                                  txMessages[1].conversation_id]_vars

\* C16 witness: a turn that created a conversation failed at the inference
\* call after an earlier turn was committed; the store holds the earlier
\* turn's conversation and its two messages and nothing of the failed turn.
C16_Witness ==
    /\ response.error = "inference failed"
    /\ Len(conversations) = 1
    /\ Len(MessagesOf(1)) = 2
    /\ Len(messages) = 2

(* ------------------------------- C11, C14 ------------------------------ *)

\* The names of FileNames without an extension or with one outside the
\* allow-list.
RejectedNames ==
    {<<"r", ".", "e", "x", "e">>,
     <<"r", ".", "p", "d", "f", ".", "e", "x", "e">>,
     <<"r", "p", "d", "f">>}

\* C11: an upload whose file name has no extension, or whose lowercased
\* extension is outside the allow-list, is answered 400 and changes neither
\* the stored files nor the uploaded_files table; every uploaded_files row
\* carries a file_type of the allow-list.
C11_InvalidUploadRejected ==
    /\ [](\A i \in DOMAIN uploaded_files :
             uploaded_files[i].file_type \in ALLOWED_EXTENSIONS)
    /\ [][upload'.filename \in RejectedNames
             => /\ upload'.status = 400
                /\ ~upload'.success
                /\ upload'.error = "Invalid file type"
                /\ blobs' = blobs
                /\ uploaded_files' = uploaded_files]_vars

\* A file with a refused extension was rejected after a file had been stored.
C11_Witness ==
    /\ upload.status = 400
    /\ upload.filename = <<"r", ".", "e", "x", "e">>
    /\ Len(uploaded_files) = 1
    /\ DOMAIN blobs # {}

\* The paths the uploaded_files rows point at.
StoredPaths == {uploaded_files[i].file_path : i \in DOMAIN uploaded_files}

\* C14: two uploaded_files rows point at the same stored path exactly when
\* they were uploaded by the same user, in the same second, under names that
\* sanitize to the same text; an upload to a path already written is answered
\* 200 and replaces the stored content, so there is one stored file per
\* distinct path.
C14_FilenameCollision ==
    /\ [](/\ \A i, j \in DOMAIN uploaded_files :
               i < j =>
                   ((uploaded_files[i].file_path = uploaded_files[j].file_path)
                       <=> /\ uploaded_files[i].user_id
                                  = uploaded_files[j].user_id
                           /\ uploaded_files[i].uploaded_at
                                  = uploaded_files[j].uploaded_at
                           /\ SecureFilename(uploaded_files[i].filename)
                                  = SecureFilename(uploaded_files[j].filename))
          /\ DOMAIN blobs = StoredPaths)
    /\ [][\A f \in Files :
             (/\ upload'.status = 200
              /\ uploaded_files' # uploaded_files
              /\ f.present
              /\ upload'.filename = f.filename
              /\ UploadFile(upload'.user_id, f, 0))
                 => /\ Len(uploaded_files') = Len(uploaded_files) + 1
                    /\ blobs'[upload'.filepath] = f.content
                    /\ \A p \in DOMAIN blobs :
                          p # upload'.filepath => blobs'[p] = blobs[p]]_vars

\* Two rows of one user, uploaded in one second under different names that
\* sanitize alike, point at one stored file that holds the second content.
C14_Witness ==
    /\ Len(uploaded_files) = 2
    /\ uploaded_files[1].file_path = uploaded_files[2].file_path
    /\ uploaded_files[1].filename # uploaded_files[2].filename
    /\ Cardinality(DOMAIN blobs) = 1
    /\ blobs[uploaded_files[2].file_path] = "y"
    /\ upload.status = 200

(* ------------------------------- C13, C15 ------------------------------ *)

\* The ids of the committed conversations.
ConversationIds == {conversations[j].id : j \in DOMAIN conversations}

\* C13: a request without a conversation id, also one that had to wait for
\* another request of the same user to finish, inserts a conversation row of
\* its own under an id no committed conversation has, whatever conversations
\* its user already owns; when it succeeds that row is committed next to the
\* others and the reply names it.
C13_DuplicateConversation ==
    [][\A w \in Workers :
          /\ (/\ req[w].pc \in {"idle", "waiting"}
              /\ req'[w].pc = "inference"
              /\ req'[w].data.conversation_id = 0)
                 => /\ Len(txConversations') = 1
                    /\ txConversations'[1].user_id = req'[w].user_id
                    /\ txConversations'[1].id = req'[w].conversation_id
                    /\ txConversations'[1].id \notin ConversationIds
          /\ (/\ Finishes(w)
              /\ response'.success
              /\ req[w].data.conversation_id = 0)
                 => /\ Len(conversations') = Len(conversations) + 1
                    /\ conversations'[Len(conversations')].user_id
                           = req[w].user_id
                    /\ conversations'[Len(conversations')].id
                           \notin ConversationIds
                    /\ response'.conversation_id
                           = conversations'[Len(conversations')].id]_vars

\* A user's request that arrived while their first was in flight has, after
\* the first one succeeded, written a second conversation row for them.
C13_Witness ==
    /\ Len(conversations) = 1
    /\ response.success
    /\ response.conversation_id = conversations[1].id
    /\ \E w \in Workers :
          /\ req[w].pc = "inference"
          /\ req[w].waited
          /\ req[w].user_id = conversations[1].user_id
          /\ Len(txConversations) = 1
          /\ txConversations[1].user_id = conversations[1].user_id
          /\ txConversations[1].id # conversations[1].id

\* C15: while a turn awaits the inference backend no write lock is held and
\* no write transaction is open, so no other turn waits for the lock or is
\* answered "database is locked", no upload is, and a contact submission can
\* be committed.
C15_NoLockWhileAwaiting ==
    /\ \A w \in Workers :
          req[w].pc = "inference"
              => /\ lockHolder = 0
                 /\ txConversations = <<>>
                 /\ txMessages = <<>>
                 /\ Len(contact_submissions) < MaxContacts
                        => \E form \in ContactForms : ENABLED Contact(form)
    /\ \A w \in Workers : req[w].pc # "waiting"
    /\ response.error # "database is locked"
    /\ upload.error # "database is locked"

====
